---------------------------- MODULE Spec2Model ----------------------------
(***************************************************************************)
(* Live analysis session of the chess coach front end.                     *)
(*                                                                         *)
(* The module models class AnalysisWebSocket and function analyzePosition  *)
(* (the api module), together with the host component ChessCoach: the     *)
(* callback it registers, its handlers and the analysis request it makes   *)
(* after every render that changed the game.  Browser WebSocket objects    *)
(* are modelled by their readyState and the events they still owe to their *)
(* handlers; the rules engine by a small set of moves it accepts.          *)
(***************************************************************************)
EXTENDS Integers, Sequences, FiniteSets, Bags, TLC

(***************************************************************************)
(* Bounds of the model.                                                    *)
(***************************************************************************)
\* sockets and timers that may be alive at once (each host connect() adds one)
MaxLive == 2
\* messages in flight on the channel, in each direction
MaxWire == 1
\* fallback requests in flight
MaxHttp == 1
\* characters of a best_move string
MaxChars == 5

\* entries of the move-history log
MaxLog == 2
\* analysis requests of the host component in flight
MaxFlight == 2

(***************************************************************************)
(* Program constants.                                                      *)
(***************************************************************************)
maxReconnectAttempts == 5
DefaultDepth == 20

(***************************************************************************)
(* Values.                                                                 *)
(***************************************************************************)
\* position strings a caller may pass; "" is the empty (falsy) string
Fens == {"fenA", "fenB"}
EmptyFen == ""
\* the value of a parameter the caller left out (undefined)
Undefined == "undefined"
FenInputs == Fens \cup {EmptyFen}

\* !fen of fallbackToHttp and analyze
Falsy(fen) == fen = EmptyFen \/ fen = Undefined

\* a string is the sequence of its characters; the value of a field that is
\* absent (null or undefined) is NoMove
NoMove == <<"null">>

\* the value of analysis before any result arrived (useState(null))
NullAnalysis ==
    [evaluation |-> 0, is_mate |-> FALSE, mate_in |-> 0, best_move |-> NoMove]

\* what the remote evaluator answers for a position
Engine(fen) ==
    IF fen = "fenA"
    THEN [evaluation |-> 0, is_mate |-> FALSE, mate_in |-> 0,
          best_move |-> <<"e", "2", "e", "4">>]
    ELSE [evaluation |-> -3, is_mate |-> TRUE, mate_in |-> -2,
          best_move |-> <<"e", "8", "g", "8">>]

AnalysisResults == {Engine(f) : f \in Fens}

\* the JSON body of an error response of the service
ErrorDetail ==
    [evaluation |-> 0, is_mate |-> FALSE, mate_in |-> 0,
     best_move |-> <<"detail">>]

\* text frames: JSON.stringify of a value, or text that is not JSON
Stringify(value) == [kind |-> "json", value |-> value]
Garbage == [kind |-> "garbage", value |-> NullAnalysis]

(***************************************************************************)
(* The best-move indicator.                                                *)
(***************************************************************************)
\* the characters of the best_move strings, and the strings of at most
\* MaxChars of them: coordinate moves, castling, promotions, shorter text
MoveChars == {"e", "c", "g", "1", "2", "4", "8"}
MoveStrings == UNION {[1 .. n -> MoveChars] : n \in 0 .. MaxChars}

\* the colour of the indicator
ArrowColor == "rgb(0, 128, 255)"

\* !move: the field is absent or the empty string
NoString(move) == move = NoMove \/ move = <<>>

\* a variant of bestMoveToArrow that draws castling as the rook's movement
BestMoveToArrowRook(move) ==
    IF NoString(move) \/ Len(move) < 4 THEN <<>>
    ELSE IF move = <<"e", "1", "g", "1">>
    THEN << <<<<"h", "1">>, <<"f", "1">>, ArrowColor>> >>
    ELSE IF move = <<"e", "1", "c", "1">>
    THEN << <<<<"a", "1">>, <<"d", "1">>, ArrowColor>> >>
    ELSE IF move = <<"e", "8", "g", "8">>
    THEN << <<<<"h", "8">>, <<"f", "8">>, ArrowColor>> >>
    ELSE IF move = <<"e", "8", "c", "8">>
    THEN << <<<<"a", "8">>, <<"d", "8">>, ArrowColor>> >>
    ELSE << <<SubSeq(move, 1, 2), SubSeq(move, 3, 4), ArrowColor>> >>

\* bestMoveToArrow(move): the list of indicators [from, to, colour]
BestMoveToArrow(move) ==
    IF NoString(move) \/ Len(move) < 4 THEN <<>>
    ELSE IF move = <<"e", "1", "g", "1">>
    THEN << <<<<"e", "1">>, <<"g", "1">>, ArrowColor>> >>
    ELSE IF move = <<"e", "1", "c", "1">>
    THEN << <<<<"e", "1">>, <<"c", "1">>, ArrowColor>> >>
    ELSE IF move = <<"e", "8", "g", "8">>
    THEN << <<<<"e", "8">>, <<"g", "8">>, ArrowColor>> >>
    ELSE IF move = <<"e", "8", "c", "8">>
    THEN << <<<<"e", "8">>, <<"c", "8">>, ArrowColor>> >>
    ELSE << <<SubSeq(move, 1, 2), SubSeq(move, 3, 4), ArrowColor>> >>

\* the effect on [analysis, showBestMove]: the value it gives to arrows
ArrowsEffect(show, result) ==
    IF show /\ result # NullAnalysis /\ ~NoString(result.best_move)
    THEN BestMoveToArrow(result.best_move)
    ELSE <<>>

\* a variant of ParseOk for a parser that never throws
ParseNeverThrows(data) == TRUE

\* JSON.parse: succeeds on JSON text and returns the value, throws otherwise
ParseOk(data) == data.kind = "json"
ParseValue(data) == data.value

(***************************************************************************)
(* The rules engine (chess.js) on the moves of the model.                  *)
(***************************************************************************)
\* moves in algebraic notation: two of White, one of Black
WhiteMoves == {"e4", "Nf3"}
BlackMoves == {"e5"}

Range(seq) == {seq[k] : k \in 1 .. Len(seq)}

\* a board is the sequence of moves played from the initial position; each
\* move of the model can be played once, by the side whose turn it is
Legal(board, move) ==
    /\ move \notin Range(board)
    /\ IF Len(board) % 2 = 0 THEN move \in WhiteMoves ELSE move \in BlackMoves

\* new Chess(): the initial position, nothing to undo
NewChess == [board |-> <<>>, undoable |-> 0]

\* new Chess(fen): the position of fen, nothing to undo
ChessOf(board) == [board |-> board, undoable |-> 0]

\* Chess.move on a legal move
Move(chess, move) ==
    [board |-> Append(chess.board, move), undoable |-> chess.undoable + 1]

\* Chess.undo: takes back the last move the object itself has played
Undo(chess) ==
    IF chess.undoable = 0 THEN chess
    ELSE [board |-> SubSeq(chess.board, 1, Len(chess.board) - 1),
          undoable |-> chess.undoable - 1]

\* Chess.fen: the position string of a board
Fen(board) ==
    IF board = <<>> THEN "fenA"
    ELSE IF board = <<"e4">> THEN "fenB"
    ELSE IF board = <<"e4", "e5">> THEN "fenC"
    ELSE IF board = <<"e4", "e5", "Nf3">> THEN "fenD"
    ELSE IF board = <<"Nf3">> THEN "fenE"
    ELSE IF board = <<"Nf3", "e5">> THEN "fenF"
    ELSE "fenG"

\* the texts the user may paste: a game of three moves, a game of one move,
\* a record without moves, and text that is not a game
PgnInputs == {"1. e4 e5 2. Nf3", "1. e4", "*", "1. e4 e9"}

\* Chess.loadPgn followed by history: the moves of the text; loadPgn throws
\* on text that is not a game
PgnOk(pgn) == pgn # "1. e4 e9"
PgnMoves(pgn) ==
    IF pgn = "1. e4 e5 2. Nf3" THEN <<"e4", "e5", "Nf3">>
    ELSE IF pgn = "1. e4" THEN <<"e4">>
    ELSE <<>>

\* the moves the user may try on the board
DropInputs == {"e4", "e5"}

(***************************************************************************)
(* WebSocket objects.                                                      *)
(***************************************************************************)
\* the value of this.ws before the first connect() (null)
NoSocket == [rs |-> "NONE", closedBy |-> "none", closePending |-> FALSE]
\* new WebSocket(url)
NewSocket == [rs |-> "CONNECTING", closedBy |-> "none", closePending |-> FALSE]

\* WebSocket.close(), called by who: a no-op unless CONNECTING or OPEN
CloseCall(sk, who) ==
    IF sk.rs \in {"CONNECTING", "OPEN"}
    THEN [sk EXCEPT !.rs = "CLOSING", !.closedBy = who]
    ELSE sk

\* a socket that still owes an event to its handlers
Alive(sk) == sk.rs \in {"CONNECTING", "OPEN", "CLOSING"} \/ sk.closePending

VARIABLES
    ws,                 \* this.ws: the socket of the last connect()
    orphans,            \* replaced sockets that still owe a close event (a bag)
    reconnectAttempts,  \* this.reconnectAttempts
    connected,          \* this.connected
    timers,             \* handles of the pending setTimeout callbacks, oldest first
    chanOut,            \* frames sent on this.ws, not yet read by the service
    chanIn,             \* frames the service sent on this.ws, not yet delivered
    http,               \* fallback requests in flight (their bodies)
    analysis,           \* host state set by the callback
    isAnalyzing,        \* host state cleared by the callback
    calls,              \* history: arguments the callback got in the last step
    last,               \* history: the step taken last and its inputs
    run,                \* history: unexpected closures since the last open
    disc,               \* history: how the host last called disconnect()
    hostWs,             \* host state ws: the manager was created and stored
    game,               \* host state game: the Chess object on the board
    moveHistory,        \* host state moveHistory: the log that is displayed
    moves,              \* host state moves: the moves of the loaded game
    currentMoveIndex,   \* host state currentMoveIndex
    showBestMove,       \* host state showBestMove
    isReviewMode,       \* host state isReviewMode
    errorMessage,       \* host state errorMessage
    direct,             \* requests the host made itself, awaited by it
    arrows              \* host state arrows: the indicators on the board

\* the state of the host component apart from analysis and isAnalyzing
hostVars == <<hostWs, game, moveHistory, moves, currentMoveIndex,
              showBestMove, isReviewMode, errorMessage, direct>>

vars == <<ws, orphans, reconnectAttempts, connected, timers, chanOut, chanIn,
          http, analysis, isAnalyzing, calls, last, run, disc, hostWs, game,
          moveHistory, moves, currentMoveIndex, showBestMove, isReviewMode,
          errorMessage, direct, arrows>>

\* the record kept in last
Step(op) ==
    [op |-> op,                 \* the handler or call
     fen |-> Undefined,         \* its position argument
     data |-> Stringify(NullAnalysis),  \* the frame or response body it got
     resolved |-> FALSE,        \* fallback: the request got a response
     ok |-> FALSE,              \* fallback: the response was 2xx
     closedBy |-> "none",       \* socket event: who had closed the socket
     current |-> FALSE,         \* socket event: the socket was this.ws
     handle |-> 0,              \* timer: the handle that fired
     before |-> 0,              \* onopen: reconnectAttempts before the step
     index |-> 0,               \* goToMove: its argument
     move |-> "none",           \* makeMove: its argument
     error |-> "none",          \* the error the catch block of the step got
     pgn |-> "none",            \* loadGame: the text it was given
     repeat |-> FALSE]          \* goToMove: the step before was the same call

ReadyState == ws.rs

\* this.ws && this.ws.readyState === WebSocket.OPEN
ChannelOpen == ws.rs = "OPEN"

\* the connection state of the specification, read off the fields
ConnectionState ==
    IF ChannelOpen THEN "Connected"
    ELSE IF ReadyState = "CONNECTING" THEN "Connecting"
    ELSE IF timers # <<>> THEN "Reconnecting"
    ELSE IF reconnectAttempts >= maxReconnectAttempts THEN "FailedOver"
    ELSE "Disconnected"

\* an error event was dispatched and the close event of the same task has
\* not been dispatched yet: no other callback runs in between
Dispatching ==
    ws.closePending \/ \E sk \in BagToSet(orphans) : sk.closePending

\* sockets and timers from which a further connect() can still follow
Tokens ==
    Len(timers) + BagCardinality(orphans) + (IF Alive(ws) THEN 1 ELSE 0)

Init ==
    /\ ws = NoSocket
    /\ orphans = EmptyBag
    /\ reconnectAttempts = 0
    /\ connected = FALSE
    /\ timers = <<>>
    /\ chanOut = <<>>
    /\ chanIn = <<>>
    /\ http = <<>>
    /\ analysis = NullAnalysis
    /\ isAnalyzing = FALSE
    /\ calls = <<>>
    /\ last = Step("new")
    /\ run = 0
    /\ disc = "no"
    /\ hostWs = FALSE
    /\ game = NewChess
    /\ moveHistory = <<>>
    /\ moves = <<>>
    /\ currentMoveIndex = 0
    /\ showBestMove = FALSE
    /\ isReviewMode = FALSE
    /\ errorMessage = ""
    /\ direct = <<>>
    /\ arrows = <<>>

(***************************************************************************)
(* Helpers shared by the handlers.                                         *)
(***************************************************************************)
\* a variant of the callback that takes a result only while analyzing
OnAnalysisWhileAnalyzing(result) ==
    /\ analysis' = IF isAnalyzing THEN result ELSE analysis
    /\ isAnalyzing' = FALSE
    /\ calls' = <<result>>
    /\ arrows' = ArrowsEffect(showBestMove, analysis')
    /\ UNCHANGED hostVars

\* the callback the host passes to the constructor
OnAnalysis(result) ==
    /\ analysis' = result
    /\ isAnalyzing' = FALSE
    /\ calls' = <<result>>
    /\ arrows' = ArrowsEffect(showBestMove, result)
    /\ UNCHANGED hostVars

\* a step that does not reach the callback
NoCallback ==
    /\ UNCHANGED <<analysis, isAnalyzing, arrows>>
    /\ calls' = <<>>
    /\ UNCHANGED hostVars

\* analyzePosition(fen, depth = 20): the body of the POST request
AnalyzePosition(fen) == [fen |-> fen, depth |-> DefaultDepth]

\* a variant of FallbackToHttp without the check of its argument
FallbackToHttpNoGuard(fen) == http' = Append(http, AnalyzePosition(fen))

\* fallbackToHttp(fen) up to its await: the request it issues, if any
FallbackToHttp(fen) ==
    http' = IF Falsy(fen) THEN http ELSE Append(http, AnalyzePosition(fen))

\* the handle setTimeout returns: the least one that no pending timer has
NewHandle ==
    CHOOSE h \in 1 .. Len(timers) + 1 :
        /\ \A k \in 1 .. Len(timers) : timers[k] # h
        /\ \A g \in 1 .. h - 1 : \E k \in 1 .. Len(timers) : timers[k] = g

\* a variant of TryReconnect that does not count the attempt
TryReconnectNoCount ==
    IF reconnectAttempts < maxReconnectAttempts
    THEN /\ timers' = Append(timers, NewHandle)
         /\ UNCHANGED reconnectAttempts
    ELSE UNCHANGED <<reconnectAttempts, timers>>

\* a variant of TryReconnect that still reconnects at the limit
TryReconnectInclusive ==
    IF reconnectAttempts <= maxReconnectAttempts
    THEN /\ reconnectAttempts' = reconnectAttempts + 1
         /\ timers' = Append(timers, NewHandle)
    ELSE UNCHANGED <<reconnectAttempts, timers>>

\* tryReconnect()
TryReconnect ==
    IF reconnectAttempts < maxReconnectAttempts
    THEN /\ reconnectAttempts' = reconnectAttempts + 1
         /\ timers' = Append(timers, NewHandle)
    ELSE UNCHANGED <<reconnectAttempts, timers>>

\* frames on the wire are only read and delivered while this.ws is OPEN
WireAfter(sk) ==
    IF sk.rs = "OPEN" THEN <<chanOut, chanIn>> ELSE << <<>>, <<>> >>

\* connect(): close the previous socket, create and wire a new one
ConnectBody ==
    /\ orphans' = IF Alive(CloseCall(ws, "connect"))
                  THEN orphans (+) SetToBag({CloseCall(ws, "connect")})
                  ELSE orphans
    /\ ws' = NewSocket
    /\ chanOut' = <<>>
    /\ chanIn' = <<>>

\* the sockets an event can be raised on: this.ws or a replaced socket
Sockets(current) == IF current THEN {ws} ELSE BagToSet(orphans)

\* socket sk, which is this.ws or a replaced socket, becomes after
SocketBecomes(sk, current, after) ==
    IF current
    THEN /\ ws' = after
         /\ UNCHANGED orphans
    ELSE /\ orphans' = IF Alive(after)
                       THEN (orphans (-) SetToBag({sk})) (+) SetToBag({after})
                       ELSE orphans (-) SetToBag({sk})
         /\ UNCHANGED ws

(***************************************************************************)
(* Calls of the host.                                                      *)
(***************************************************************************)
\* connect() called by the host
Connect ==
    /\ ~Dispatching
    /\ Tokens < MaxLive
    /\ ConnectBody
    /\ NoCallback
    /\ last' = Step("connect")
    /\ disc' = "no"
    /\ UNCHANGED <<reconnectAttempts, connected, timers, http, run>>

\* a variant of disconnect that also drops the fallback requests in flight
DisconnectAborts ==
    /\ ~Dispatching
    /\ IF ws.rs # "NONE"
       THEN /\ ws' = CloseCall(ws, "disconnect")
            /\ connected' = FALSE
       ELSE UNCHANGED <<ws, connected>>
    /\ chanOut' = WireAfter(ws')[1]
    /\ chanIn' = WireAfter(ws')[2]
    /\ http' = <<>>
    /\ NoCallback
    /\ last' = Step("disconnect")
    /\ disc' = IF timers # <<>> THEN "timer"
               ELSE IF ChannelOpen THEN "open"
               ELSE IF disc = "no" THEN "other" ELSE disc
    /\ UNCHANGED <<orphans, reconnectAttempts, timers, run>>

\* disconnect()
Disconnect ==
    /\ ~Dispatching
    /\ IF ws.rs # "NONE"
       THEN /\ ws' = CloseCall(ws, "disconnect")
            /\ connected' = FALSE
       ELSE UNCHANGED <<ws, connected>>
    /\ chanOut' = WireAfter(ws')[1]
    /\ chanIn' = WireAfter(ws')[2]
    /\ NoCallback
    /\ last' = Step("disconnect")
    /\ disc' = IF timers # <<>> THEN "timer"
               ELSE IF ChannelOpen THEN "open"
               ELSE IF disc = "no" THEN "other" ELSE disc
    /\ UNCHANGED <<orphans, reconnectAttempts, timers, http, run>>

\* a variant of the body of analyze that sends the depth on the channel too
AnalyzeCallWithDepth(fen) ==
    IF Falsy(fen)
    THEN UNCHANGED <<chanOut, http>>
    ELSE IF ChannelOpen
         THEN /\ chanOut' = Append(chanOut, Stringify(AnalyzePosition(fen)))
              /\ UNCHANGED http
         ELSE /\ FallbackToHttp(fen)
              /\ UNCHANGED chanOut

\* the body of analyze(fen): send on the open channel, or fall back
AnalyzeCall(fen) ==
    IF Falsy(fen)
    THEN UNCHANGED <<chanOut, http>>
    ELSE IF ChannelOpen
         THEN /\ chanOut' = Append(chanOut, Stringify([fen |-> fen]))
              /\ UNCHANGED http
         ELSE /\ FallbackToHttp(fen)
              /\ UNCHANGED chanOut

\* a variant of analyze that tests this.ws only, not its readyState
AnalyzeNoReadyState(fen) ==
    /\ ~Dispatching
    /\ Len(chanOut) < MaxWire
    /\ Len(http) < MaxHttp
    /\ IF Falsy(fen)
       THEN UNCHANGED <<chanOut, http>>
       ELSE IF ws.rs # "NONE"
            THEN /\ chanOut' = Append(chanOut, Stringify([fen |-> fen]))
                 /\ UNCHANGED http
            ELSE /\ FallbackToHttp(fen)
                 /\ UNCHANGED chanOut
    /\ NoCallback
    /\ last' = [Step("analyze") EXCEPT !.fen = fen]
    /\ UNCHANGED <<ws, orphans, reconnectAttempts, connected, timers, chanIn,
                   run, disc>>

\* analyze(fen) called by the host directly
Analyze(fen) ==
    /\ ~Dispatching
    /\ Len(chanOut) < MaxWire
    /\ Len(http) < MaxHttp
    /\ AnalyzeCall(fen)
    /\ NoCallback
    /\ last' = [Step("analyze") EXCEPT !.fen = fen]
    /\ UNCHANGED <<ws, orphans, reconnectAttempts, connected, timers, chanIn,
                   run, disc>>

(***************************************************************************)
(* Timer and socket events.                                                *)
(***************************************************************************)
\* the callback of setTimeout in tryReconnect: the oldest timer fires
TimerFire ==
    /\ ~Dispatching
    /\ timers # <<>>
    /\ timers' = Tail(timers)
    /\ ConnectBody
    /\ NoCallback
    /\ last' = [Step("timer") EXCEPT !.handle = Head(timers)]
    /\ UNCHANGED <<reconnectAttempts, connected, http, run, disc>>

\* a variant of onopen that leaves reconnectAttempts alone
OnOpenNoReset ==
    /\ ~Dispatching
    /\ ws.rs = "CONNECTING"
    /\ ws' = [ws EXCEPT !.rs = "OPEN"]
    /\ connected' = TRUE
    /\ NoCallback
    /\ last' = [Step("onopen") EXCEPT !.before = reconnectAttempts]
    /\ run' = 0
    /\ UNCHANGED <<orphans, reconnectAttempts, timers, chanOut, chanIn, http,
                   disc>>

\* ws.onopen: the connection of this.ws is established
OnOpen ==
    /\ ~Dispatching
    /\ ws.rs = "CONNECTING"
    /\ ws' = [ws EXCEPT !.rs = "OPEN"]
    /\ connected' = TRUE
    /\ reconnectAttempts' = 0
    /\ NoCallback
    /\ last' = [Step("onopen") EXCEPT !.before = reconnectAttempts]
    /\ run' = 0
    /\ UNCHANGED <<orphans, timers, chanOut, chanIn, http, disc>>

\* ws.onerror of socket sk: its connection failed; a close event follows
OnError(sk, current) ==
    /\ ~Dispatching
    /\ sk.rs \in {"CONNECTING", "OPEN", "CLOSING"}
    /\ SocketBecomes(sk, current,
                     [sk EXCEPT !.rs = "CLOSED", !.closePending = TRUE])
    /\ FallbackToHttp(Undefined)
    /\ chanOut' = WireAfter(ws')[1]
    /\ chanIn' = WireAfter(ws')[2]
    /\ NoCallback
    /\ last' = [Step("onerror") EXCEPT !.closedBy = sk.closedBy,
                                       !.current = current]
    /\ UNCHANGED <<reconnectAttempts, connected, timers, run, disc>>

\* ws.onclose of socket sk: after an error, a close() or a closure by the peer
OnClose(sk, current) ==
    /\ sk.closePending \/ (~Dispatching /\ sk.rs \in {"OPEN", "CLOSING"})
    /\ SocketBecomes(sk, current,
                     [sk EXCEPT !.rs = "CLOSED", !.closePending = FALSE])
    /\ connected' = FALSE
    /\ TryReconnect
    /\ chanOut' = WireAfter(ws')[1]
    /\ chanIn' = WireAfter(ws')[2]
    /\ NoCallback
    /\ last' = [Step("onclose") EXCEPT !.closedBy = sk.closedBy,
                                       !.current = current]
    /\ run' = IF sk.closedBy = "none" /\ run <= maxReconnectAttempts
              THEN run + 1 ELSE run
    /\ UNCHANGED <<http, disc>>

\* ws.onmessage: a frame arrives on the open channel
OnMessage ==
    /\ ~Dispatching
    /\ ChannelOpen
    /\ chanIn # <<>>
    /\ chanIn' = Tail(chanIn)
    /\ IF ParseOk(Head(chanIn))
       THEN OnAnalysis(ParseValue(Head(chanIn)))
       ELSE NoCallback
    /\ last' = [Step("onmessage") EXCEPT !.data = Head(chanIn)]
    /\ UNCHANGED <<ws, orphans, reconnectAttempts, connected, timers, chanOut,
                   http, run, disc>>

(***************************************************************************)
(* The remote service.                                                     *)
(***************************************************************************)
\* the answers the service may give to a fallback request
Responses(body) ==
    { [resolved |-> TRUE, ok |-> TRUE, body |-> Stringify(Engine(body.fen))],
      [resolved |-> TRUE, ok |-> TRUE, body |-> Garbage],
      [resolved |-> TRUE, ok |-> FALSE, body |-> Garbage],
      [resolved |-> TRUE, ok |-> FALSE, body |-> Stringify(ErrorDetail)],
      [resolved |-> FALSE, ok |-> FALSE, body |-> Garbage] }

\* a variant of Succeeds that does not look at response.ok
SucceedsNoOkCheck(resp) == resp.resolved /\ ParseOk(resp.body)

\* analyzePosition returns a result (does not throw) on this answer
Succeeds(resp) == resp.resolved /\ resp.ok /\ ParseOk(resp.body)

\* the error analyzePosition throws to its caller on this answer: fetch
\* rejects, the status is not 2xx, or the body is not JSON
Thrown(resp) ==
    IF ~resp.resolved THEN "TypeError"
    ELSE IF ~resp.ok THEN "Analysis failed"
    ELSE IF ~ParseOk(resp.body) THEN "SyntaxError"
    ELSE "none"

RemoveAt(seq, i) == SubSeq(seq, 1, i - 1) \o SubSeq(seq, i + 1, Len(seq))

\* a variant of FallbackResolve whose catch block clears the indicator
FallbackResolveClears(i, resp) ==
    /\ ~Dispatching
    /\ http' = RemoveAt(http, i)
    /\ IF Succeeds(resp)
       THEN OnAnalysis(ParseValue(resp.body))
       ELSE /\ isAnalyzing' = FALSE
            /\ calls' = <<>>
            /\ UNCHANGED <<analysis, arrows>>
            /\ UNCHANGED hostVars
    /\ last' = [Step("fallback") EXCEPT !.fen = http[i].fen,
                                        !.data = resp.body,
                                        !.resolved = resp.resolved,
                                        !.ok = resp.ok,
                                        !.error = Thrown(resp)]
    /\ UNCHANGED <<ws, orphans, reconnectAttempts, connected, timers, chanOut,
                   chanIn, run, disc>>

\* fallbackToHttp after its await: the answer to request i arrives
FallbackResolve(i, resp) ==
    /\ ~Dispatching
    /\ http' = RemoveAt(http, i)
    /\ IF Succeeds(resp)
       THEN OnAnalysis(ParseValue(resp.body))
       ELSE NoCallback
    /\ last' = [Step("fallback") EXCEPT !.fen = http[i].fen,
                                        !.data = resp.body,
                                        !.resolved = resp.resolved,
                                        !.ok = resp.ok,
                                        !.error = Thrown(resp)]
    /\ UNCHANGED <<ws, orphans, reconnectAttempts, connected, timers, chanOut,
                   chanIn, run, disc>>

\* the frames the service may send
Frames == {Stringify(r) : r \in AnalysisResults} \cup {Garbage}

\* the service reads a frame of the channel and answers it
ServiceReply(data) ==
    /\ ~Dispatching
    /\ ChannelOpen
    /\ chanOut # <<>>
    /\ Len(chanIn) < MaxWire
    /\ data \in {Stringify(Engine(ParseValue(Head(chanOut)).fen)), Garbage}
    /\ chanOut' = Tail(chanOut)
    /\ chanIn' = Append(chanIn, data)
    /\ NoCallback
    /\ last' = Step("service")
    /\ UNCHANGED <<ws, orphans, reconnectAttempts, connected, timers, http,
                   run, disc>>

Next ==
    \/ Connect
    \/ Disconnect
    \/ \E fen \in FenInputs : Analyze(fen)
    \/ TimerFire
    \/ OnOpen
    \/ \E current \in BOOLEAN : \E sk \in Sockets(current) :
           OnError(sk, current)
    \/ \E current \in BOOLEAN : \E sk \in Sockets(current) :
           OnClose(sk, current)
    \/ OnMessage
    \/ \E i \in 1 .. Len(http) : \E resp \in Responses(http[i]) :
           FallbackResolve(i, resp)
    \/ \E data \in Frames : ServiceReply(data)

Spec == Init /\ [][Next]_vars

(***************************************************************************)
(* The host component ChessCoach.                                          *)
(***************************************************************************)
\* what a handler of the host leaves alone in the connection manager
ManagerUnchanged ==
    UNCHANGED <<ws, orphans, reconnectAttempts, connected, timers, chanIn,
                run, disc>>

\* the effect on [analysis, showBestMove] of the render that ends the step
Render == arrows' = ArrowsEffect(showBestMove', analysis')

\* the first commit: the effect creates the manager, calls connect() and
\* stores it; requestAnalysis runs once with ws still null and makes its own
\* request, and again after the render that has ws, through the manager
Mount ==
    /\ ~hostWs
    /\ hostWs' = TRUE
    /\ ConnectBody
    /\ direct' = Append(direct, AnalyzePosition(Fen(game.board)))
    /\ FallbackToHttp(Fen(game.board))
    /\ isAnalyzing' = TRUE
    /\ calls' = <<>>
    /\ last' = Step("mount")
    /\ disc' = "no"
    /\ UNCHANGED <<reconnectAttempts, connected, timers, run, analysis, game,
                   moveHistory, moves, currentMoveIndex, showBestMove,
                   isReviewMode, errorMessage>>
    /\ Render

\* the requests of the host that have not been answered or dropped yet
InFlight == Len(chanOut) + Len(chanIn) + Len(http) + Len(direct)

\* requestAnalysis with ws set: the effect of a render with a new game
RequestAnalysis(fen) ==
    /\ isAnalyzing' = TRUE
    /\ AnalyzeCall(fen)

\* a variant of SetGame whose effect depends on the position string only:
\* no request when the new game has the position of the old one
SetGameSamePosition(chess) ==
    /\ hostWs
    /\ ~Dispatching
    /\ InFlight < MaxFlight
    /\ game' = chess
    /\ IF Fen(chess.board) = Fen(game.board)
       THEN UNCHANGED <<isAnalyzing, chanOut, http>>
       ELSE RequestAnalysis(Fen(chess.board))
    /\ calls' = <<>>
    /\ ManagerUnchanged
    /\ UNCHANGED <<analysis, hostWs, direct>>

\* setGame(chess) in a handler, and the effect of the render that follows
SetGame(chess) ==
    /\ hostWs
    /\ ~Dispatching
    /\ InFlight < MaxFlight
    /\ game' = chess
    /\ RequestAnalysis(Fen(chess.board))
    /\ calls' = <<>>
    /\ ManagerUnchanged
    /\ UNCHANGED <<analysis, hostWs, direct>>

\* a handler that sets no state: nothing is rendered
NoRender ==
    /\ hostWs
    /\ ~Dispatching
    /\ calls' = <<>>
    /\ ManagerUnchanged
    /\ UNCHANGED <<chanOut, http, analysis, isAnalyzing, hostWs, direct, game,
                   moveHistory, moves, currentMoveIndex, showBestMove,
                   isReviewMode, errorMessage, arrows>>

\* a variant of LoadGame whose catch block also leaves review mode
LoadGameLeavesReview(pgn) ==
    /\ IF PgnOk(pgn)
       THEN /\ SetGame(NewChess)
            /\ moves' = PgnMoves(pgn)
            /\ currentMoveIndex' = 0
            /\ isReviewMode' = TRUE
            /\ errorMessage' = ""
            /\ moveHistory' = PgnMoves(pgn)
            /\ UNCHANGED showBestMove
       ELSE /\ hostWs
            /\ ~Dispatching
            /\ errorMessage' = "Invalid PGN format. Please check your input"
            /\ isReviewMode' = FALSE
            /\ calls' = <<>>
            /\ ManagerUnchanged
            /\ UNCHANGED <<chanOut, http, analysis, isAnalyzing, hostWs,
                           direct, game, moveHistory, moves,
                           currentMoveIndex, showBestMove>>
    /\ last' = [Step("loadGame") EXCEPT !.ok = PgnOk(pgn), !.pgn = pgn]
    /\ Render

\* loadGame with pgnInput = pgn
LoadGame(pgn) ==
    /\ IF PgnOk(pgn)
       THEN /\ SetGame(NewChess)
            /\ moves' = PgnMoves(pgn)
            /\ currentMoveIndex' = 0
            /\ isReviewMode' = TRUE
            /\ errorMessage' = ""
            /\ moveHistory' = PgnMoves(pgn)
            /\ UNCHANGED showBestMove
       ELSE /\ hostWs
            /\ ~Dispatching
            /\ errorMessage' = "Invalid PGN format. Please check your input"
            /\ calls' = <<>>
            /\ ManagerUnchanged
            /\ UNCHANGED <<chanOut, http, analysis, isAnalyzing, hostWs,
                           direct, game, moveHistory, moves,
                           currentMoveIndex, showBestMove, isReviewMode>>
    /\ last' = [Step("loadGame") EXCEPT !.ok = PgnOk(pgn), !.pgn = pgn]
    /\ Render

\* a variant of the loop of goToMove that stops one move early
RECURSIVE ReplayExclusive(_, _, _)
ReplayExclusive(chess, i, index) ==
    IF i < index /\ i < Len(moves)
    THEN ReplayExclusive(Move(chess, moves[i + 1]), i + 1, index)
    ELSE chess

\* a variant of the loop of goToMove that skips the moves before the cursor
RECURSIVE ReplayFromCursor(_, _, _)
ReplayFromCursor(chess, i, index) ==
    IF i < currentMoveIndex
    THEN ReplayFromCursor(chess, i + 1, index)
    ELSE IF i <= index /\ i < Len(moves)
    THEN ReplayFromCursor(Move(chess, moves[i + 1]), i + 1, index)
    ELSE chess

\* the loop of goToMove: newGame.move(moves[i]) for i <= index, i < length
\* (i counts from 0 as in the code; moves is indexed from 1)
RECURSIVE Replay(_, _, _)
Replay(chess, i, index) ==
    IF i <= index /\ i < Len(moves)
    THEN Replay(Move(chess, moves[i + 1]), i + 1, index)
    ELSE chess

\* a variant of GoToMove that replays onto the game on the board
GoToMoveFromCurrent(index) ==
    /\ SetGame(Replay(game, 0, index))
    /\ currentMoveIndex' = index
    /\ showBestMove' = FALSE
    /\ Render
    /\ UNCHANGED <<moveHistory, moves, isReviewMode, errorMessage>>

\* goToMove(index)
GoToMove(index) ==
    /\ SetGame(Replay(NewChess, 0, index))
    /\ currentMoveIndex' = index
    /\ showBestMove' = FALSE
    /\ Render
    /\ UNCHANGED <<moveHistory, moves, isReviewMode, errorMessage>>

\* the buttons of review mode that call goToMove with a fixed argument
GoToStart ==
    /\ isReviewMode
    /\ GoToMove(0)
    /\ last' = [Step("goToMove") EXCEPT
                    !.index = 0,
                    !.repeat = (last.op = "goToMove" /\ last.index = 0)]

GoToEnd ==
    /\ isReviewMode
    /\ GoToMove(Len(moves) - 1)
    /\ last' = [Step("goToMove") EXCEPT
                    !.index = Len(moves) - 1,
                    !.repeat = (/\ last.op = "goToMove"
                                /\ last.index = Len(moves) - 1)]

\* goToNextMove
GoToNextMove ==
    /\ isReviewMode
    /\ IF currentMoveIndex < Len(moves) - 1
       THEN GoToMove(currentMoveIndex + 1)
       ELSE NoRender
    /\ last' = [Step("goToNextMove") EXCEPT !.index = currentMoveIndex + 1]

\* goToPreviousMove
GoToPreviousMove ==
    /\ isReviewMode
    /\ IF currentMoveIndex > 0
       THEN GoToMove(currentMoveIndex - 1)
       ELSE NoRender
    /\ last' = [Step("goToPreviousMove") EXCEPT !.index = currentMoveIndex - 1]

\* a variant of MakeMove that hides the best move before it tries the move
MakeMoveHidesFirst(move) ==
    /\ IF Legal(game.board, move)
       THEN /\ Len(moveHistory) < MaxLog
            /\ SetGame(Move(ChessOf(game.board), move))
            /\ moveHistory' = Append(moveHistory, move)
            /\ showBestMove' = FALSE
            /\ Render
            /\ UNCHANGED <<moves, currentMoveIndex, isReviewMode,
                           errorMessage>>
       ELSE /\ hostWs
            /\ ~Dispatching
            /\ showBestMove' = FALSE
            /\ calls' = <<>>
            /\ ManagerUnchanged
            /\ UNCHANGED <<chanOut, http, analysis, isAnalyzing, hostWs,
                           direct, game, moveHistory, moves,
                           currentMoveIndex, isReviewMode, errorMessage>>
            /\ Render
    /\ last' = [Step("makeMove") EXCEPT !.move = move,
                                        !.ok = Legal(game.board, move)]

\* a variant of MakeMove that leaves the best move on the board
MakeMoveKeepsArrows(move) ==
    /\ IF Legal(game.board, move)
       THEN /\ Len(moveHistory) < MaxLog
            /\ SetGame(Move(ChessOf(game.board), move))
            /\ moveHistory' = Append(moveHistory, move)
            /\ UNCHANGED <<moves, currentMoveIndex, isReviewMode,
                           errorMessage, showBestMove, arrows>>
       ELSE NoRender
    /\ last' = [Step("makeMove") EXCEPT !.move = move,
                                        !.ok = Legal(game.board, move)]

\* makeMove(move), called by onDrop
MakeMove(move) ==
    /\ IF Legal(game.board, move)
       THEN /\ Len(moveHistory) < MaxLog
            /\ SetGame(Move(ChessOf(game.board), move))
            /\ moveHistory' = Append(moveHistory, move)
            /\ showBestMove' = FALSE
            /\ Render
            /\ UNCHANGED <<moves, currentMoveIndex, isReviewMode,
                           errorMessage>>
       ELSE NoRender
    /\ last' = [Step("makeMove") EXCEPT !.move = move,
                                        !.ok = Legal(game.board, move)]

\* resetGame, a button outside review mode
ResetGame ==
    /\ ~isReviewMode
    /\ SetGame(NewChess)
    /\ moveHistory' = <<>>
    /\ showBestMove' = FALSE
    /\ Render
    /\ last' = Step("resetGame")
    /\ UNCHANGED <<moves, currentMoveIndex, isReviewMode, errorMessage>>

\* a variant of the Undo button that also takes the move off the log
UndoMoveTrimsLog ==
    /\ ~isReviewMode
    /\ SetGame(ChessOf(Undo(game).board))
    /\ moveHistory' = SubSeq(moveHistory, 1, Len(moveHistory) - game.undoable)
    /\ last' = Step("undo")
    /\ UNCHANGED arrows
    /\ UNCHANGED <<moves, currentMoveIndex, showBestMove, isReviewMode,
                   errorMessage>>

\* the Undo button outside review mode: game.undo(), setGame(new Chess(fen))
UndoMove ==
    /\ ~isReviewMode
    /\ SetGame(ChessOf(Undo(game).board))
    /\ last' = Step("undo")
    /\ UNCHANGED arrows
    /\ UNCHANGED <<moveHistory, moves, currentMoveIndex, showBestMove,
                   isReviewMode, errorMessage>>

\* the Show/Hide button, rendered when an analysis is displayed
ToggleBestMove ==
    /\ hostWs
    /\ ~Dispatching
    /\ ~isAnalyzing
    /\ analysis # NullAnalysis
    /\ showBestMove' = ~showBestMove
    /\ calls' = <<>>
    /\ last' = Step("toggle")
    /\ ManagerUnchanged
    /\ UNCHANGED <<chanOut, http, analysis, isAnalyzing, hostWs, direct, game,
                   moveHistory, moves, currentMoveIndex, isReviewMode,
                   errorMessage>>
    /\ Render

\* requestAnalysis after its await: the answer to the host's own request
DirectResolve(i, resp) ==
    /\ ~Dispatching
    /\ direct' = RemoveAt(direct, i)
    /\ IF Succeeds(resp)
       THEN analysis' = ParseValue(resp.body)
       ELSE UNCHANGED analysis
    /\ isAnalyzing' = FALSE
    /\ calls' = <<>>
    /\ last' = [Step("direct") EXCEPT !.fen = direct[i].fen,
                                      !.data = resp.body,
                                      !.resolved = resp.resolved,
                                      !.ok = resp.ok,
                                      !.error = Thrown(resp)]
    /\ ManagerUnchanged
    /\ UNCHANGED <<chanOut, http, hostWs, game, moveHistory, moves,
                   currentMoveIndex, showBestMove, isReviewMode,
                   errorMessage>>
    /\ Render

\* direct play: the mounted component before a game is loaded, with the
\* manager's events and the service
PlayNext ==
    \/ Mount
    \/ \E move \in DropInputs : MakeMove(move)
    \/ ResetGame
    \/ UndoMove
    \/ ToggleBestMove
    \/ \E i \in 1 .. Len(direct) : \E resp \in Responses(direct[i]) :
           DirectResolve(i, resp)
    \/ \E i \in 1 .. Len(http) : \E resp \in Responses(http[i]) :
           FallbackResolve(i, resp)
    \/ OnOpen
    \/ \E current \in BOOLEAN : \E sk \in Sockets(current) :
           OnError(sk, current)
    \/ \E current \in BOOLEAN : \E sk \in Sockets(current) :
           OnClose(sk, current)
    \/ TimerFire
    \/ OnMessage
    \/ \E data \in Frames : ServiceReply(data)

PlaySpec == Init /\ [][PlayNext]_vars

\* review: every handler of the mounted component, while the channel opens
\* and stays open or is still connecting
ReviewNext ==
    \/ Mount
    \/ \E pgn \in PgnInputs : LoadGame(pgn)
    \/ GoToStart
    \/ GoToEnd
    \/ GoToNextMove
    \/ GoToPreviousMove
    \/ \E move \in DropInputs : MakeMove(move)
    \/ ResetGame
    \/ UndoMove
    \/ ToggleBestMove
    \/ \E i \in 1 .. Len(direct) : \E resp \in Responses(direct[i]) :
           DirectResolve(i, resp)
    \/ \E i \in 1 .. Len(http) : \E resp \in Responses(http[i]) :
           FallbackResolve(i, resp)
    \/ OnOpen
    \/ OnMessage
    \/ \E data \in Frames : ServiceReply(data)

ReviewSpec == Init /\ [][ReviewNext]_vars

\* the mounted component after a result arrived on the open channel: the
\* result's best_move is any string of the service, or absent
ArrowInit ==
    /\ ws = [NewSocket EXCEPT !.rs = "OPEN"]
    /\ orphans = EmptyBag
    /\ reconnectAttempts = 0
    /\ connected = TRUE
    /\ timers = <<>>
    /\ chanOut = <<>>
    /\ chanIn = <<>>
    /\ http = <<>>
    /\ analysis \in {[evaluation |-> 1, is_mate |-> FALSE, mate_in |-> 0,
                      best_move |-> m] : m \in MoveStrings \cup {NoMove}}
    /\ isAnalyzing = FALSE
    /\ calls = <<analysis>>
    /\ last = [Step("onmessage") EXCEPT !.data = Stringify(analysis)]
    /\ run = 0
    /\ disc = "no"
    /\ hostWs = TRUE
    /\ game = NewChess
    /\ moveHistory = <<>>
    /\ moves = <<>>
    /\ currentMoveIndex = 0
    /\ showBestMove = FALSE
    /\ isReviewMode = FALSE
    /\ errorMessage = ""
    /\ direct = <<>>
    /\ arrows = <<>>

\* the Show/Hide button on every result the service may have sent
ArrowNext == ToggleBestMove

ArrowSpec == ArrowInit /\ [][ArrowNext]_vars

\* the close event that follows an error event in the same task
CloseAfterError ==
    \E current \in BOOLEAN : \E sk \in Sockets(current) :
        sk.closePending /\ OnClose(sk, current)

\* the calls and events that act on the sockets, the counter and the timers;
\* analyze(), frames and fallback responses leave all of these unchanged
NextReconnect ==
    \/ Connect
    \/ Disconnect
    \/ TimerFire
    \/ OnOpen
    \/ \E current \in BOOLEAN : \E sk \in Sockets(current) :
           OnError(sk, current)
    \/ \E current \in BOOLEAN : \E sk \in Sockets(current) :
           OnClose(sk, current)

\* reconnection under the scheduling of the event loop: a started task runs
\* to completion, and a pending timer fires once its delay has passed and no
\* task is running
LiveSpec ==
    /\ Init
    /\ [][NextReconnect]_vars
    /\ WF_vars(CloseAfterError)
    /\ SF_vars(TimerFire)

TypeOK ==
    /\ reconnectAttempts \in 0 .. maxReconnectAttempts
    /\ connected \in BOOLEAN
    /\ Len(timers) <= MaxLive
    /\ Len(chanOut) <= (IF hostWs THEN MaxFlight ELSE MaxWire)
    /\ Len(chanIn) <= MaxWire
    /\ Len(http) <= (IF hostWs THEN MaxFlight ELSE MaxHttp)
    /\ hostWs => InFlight <= MaxFlight
    /\ Len(moveHistory) <= MaxLog \/ moveHistory = moves
    /\ Tokens <= MaxLive
    /\ \A sk \in BagToSet(orphans) : Alive(sk)
    /\ (timers # <<>> /\ ~Dispatching) => ENABLED TimerFire

(***************************************************************************)
(* Properties of the connection manager.                                   *)
(***************************************************************************)
\* the number of sockets that are connecting or open
LiveChannels ==
    (IF ws.rs \in {"CONNECTING", "OPEN"} THEN 1 ELSE 0)
    + BagCardinality([sk \in {o \in BagToSet(orphans) :
                                  o.rs \in {"CONNECTING", "OPEN"}}
                        |-> orphans[sk]])

\* C1: after 5 consecutive unexpected closures with no successful open in
\* between, a further closure schedules no reconnection timer and no
\* automatic connect() happens again.
C1_ReconnectionBounded ==
    [][/\ (last'.op = "onclose" /\ run >= maxReconnectAttempts)
             => timers' = timers
       /\ run > maxReconnectAttempts => last'.op # "timer"]_vars

\* C2: analyze() of a non-empty position sends on the channel and issues no
\* fallback request when the channel is Connected; in any other state it
\* issues exactly one fallback request and sends nothing on the channel.
C2_AnalyzeRouting ==
    [][(last'.op = "analyze" /\ ~Falsy(last'.fen)) =>
          IF ConnectionState = "Connected"
          THEN /\ chanOut' = Append(chanOut, Stringify([fen |-> last'.fen]))
               /\ http' = http
          ELSE /\ Len(http') = Len(http) + 1
               /\ http' = Append(http, [fen |-> last'.fen,
                                        depth |-> DefaultDepth])
               /\ chanOut' = chanOut]_vars

\* C2 witness: analyze() in FailedOver has issued a fallback request
C2_Witness ==
    /\ last.op = "analyze"
    /\ ConnectionState = "FailedOver"
    /\ last.fen \in Fens
    /\ http # <<>>

\* C3: if a reconnection timer is pending when disconnect() is called, that
\* timer never calls connect(), and the manager stays without a connecting
\* or open channel until the host calls connect().
C3_DisconnectCancelsTimer ==
    disc = "timer" => (last.op # "timer" /\ LiveChannels = 0)

\* C4: in every reachable state at most one channel and at most one
\* reconnection timer are live.
C4_OneChannelOneTimer ==
    /\ LiveChannels <= 1
    /\ Len(timers) <= 1

\* C5: the closure that follows disconnect() neither increments
\* reconnectAttempts nor schedules a reconnection, and after disconnect() of
\* a Connected manager no channel is opened until the host calls connect().
C5_DisconnectIsFinal ==
    [][/\ (last'.op = "onclose" /\ last'.closedBy = "disconnect")
             => (reconnectAttempts' = reconnectAttempts /\ timers' = timers)
       /\ disc' = "open" => LiveChannels' = 0]_vars

\* C6: when a channel opens the manager is Connected and reconnectAttempts
\* is zero, so all 5 reconnection attempts are available again.
C6_OpenResetsAttempts ==
    last.op = "onopen" =>
        /\ ConnectionState = "Connected"
        /\ connected
        /\ reconnectAttempts = 0
        /\ maxReconnectAttempts - reconnectAttempts = 5

\* C6 witness: a channel opened after the attempts had been used up
C6_Witness ==
    /\ last.op = "onopen"
    /\ last.before = maxReconnectAttempts
    /\ reconnectAttempts = 0

\* the handles a pending timer can have
Handles == 1 .. MaxLive
Pending(seq) == {seq[k] : k \in 1 .. Len(seq)}

\* C7: a closure that finds reconnectAttempts < 5 increments the counter by
\* exactly one and schedules one timer; a timer goes away only by firing,
\* which calls connect() once (Reconnecting to Connecting); and every
\* scheduled timer eventually fires.
C7_ReconnectOncePerClosure ==
    /\ [][(last'.op = "onclose" /\ reconnectAttempts < maxReconnectAttempts)
            => /\ reconnectAttempts' = reconnectAttempts + 1
               /\ Len(timers') = Len(timers) + 1
               /\ SubSeq(timers', 1, Len(timers)) = timers
               /\ timers'[Len(timers')] \notin Pending(timers)]_vars
    /\ [][\A h \in Handles :
            (h \in Pending(timers) /\ h \notin Pending(timers'))
            => /\ last'.op = "timer"
               /\ last'.handle = h
               /\ Len(timers') = Len(timers) - 1
               /\ ReadyState' = "CONNECTING"]_vars
    /\ \A h \in Handles :
            (h \in Pending(timers)) ~> (last.op = "timer" /\ last.handle = h)

\* C7 witness: the timer of an unexpected closure fired and called connect()
C7_Witness ==
    /\ last.op = "timer"
    /\ last.handle \in Handles
    /\ reconnectAttempts >= 1
    /\ ConnectionState = "Connecting"

\* C8: the callback is invoked exactly once, with the received result, in
\* the step that parses an inbound frame or gets a successful fallback
\* response, and is not invoked in any other step.
C8_CallbackOncePerResult ==
    /\ calls = IF last.op = "onmessage" /\ last.data.kind = "json"
               THEN <<last.data.value>>
               ELSE IF /\ last.op = "fallback"
                       /\ last.resolved
                       /\ last.ok
                       /\ last.data.kind = "json"
                    THEN <<last.data.value>>
                    ELSE <<>>
    /\ calls # <<>> => analysis = calls[1]

\* C8 witness: the frame of the specification's example reached the callback
C8_Witness ==
    /\ last.op = "onmessage"
    /\ calls = << [evaluation |-> 0, is_mate |-> FALSE, mate_in |-> 0,
                   best_move |-> <<"e", "2", "e", "4">>] >>
    /\ analysis.best_move = <<"e", "2", "e", "4">>

\* C9: an inbound frame that fails to parse is dropped: the callback is not
\* invoked, nothing is sent or requested, and the sockets, the connection
\* state and reconnectAttempts are unchanged.
C9_MalformedFrameDropped ==
    [][(last'.op = "onmessage" /\ last'.data = Garbage)
          => /\ calls' = <<>>
             /\ UNCHANGED <<analysis, isAnalyzing, chanOut, http, ws, orphans,
                            reconnectAttempts, connected, timers>>
             /\ ConnectionState' = ConnectionState]_vars

\* C9 witness: a malformed frame was received on the open channel
C9_Witness ==
    /\ last.op = "onmessage"
    /\ last.data = Garbage
    /\ ConnectionState = "Connected"
    /\ calls = <<>>

\* C10: an error event of a socket issues no fallback request, invokes no
\* callback, and neither changes reconnectAttempts nor schedules a timer.
C10_ErrorEventNoFallback ==
    [][last'.op = "onerror"
          => /\ http' = http
             /\ calls' = <<>>
             /\ UNCHANGED <<analysis, isAnalyzing, reconnectAttempts,
                            timers>>]_vars

\* C10 witness: an error was raised on the open channel
C10_Witness ==
    /\ last.op = "onerror"
    /\ last.current
    /\ ws.closePending
    /\ http = <<>>

C12_PayloadPosition ==
    [][(last'.op = "analyze" /\ ~Falsy(last'.fen)) =>
          IF Len(chanOut') > Len(chanOut)
          THEN /\ chanOut'[Len(chanOut')].kind = "json"
               /\ DOMAIN chanOut'[Len(chanOut')].value = {"position"}
               /\ chanOut'[Len(chanOut')].value.position = last'.fen
          ELSE /\ Len(http') > Len(http)
               /\ DOMAIN http'[Len(http')] = {"position", "depth"}
               /\ http'[Len(http')].position = last'.fen
               /\ http'[Len(http')].depth = 20]_vars

\* C12 as amended: analyze() of a position sends on the channel a JSON
\* object whose only field is "fen", holding the position string (no depth);
\* the fallback request carries "fen" and "depth", with depth 20.
C12_PayloadFen ==
    [][(last'.op = "analyze" /\ ~Falsy(last'.fen)) =>
          IF Len(chanOut') > Len(chanOut)
          THEN /\ chanOut'[Len(chanOut')].kind = "json"
               /\ DOMAIN chanOut'[Len(chanOut')].value = {"fen"}
               /\ chanOut'[Len(chanOut')].value.fen = last'.fen
          ELSE /\ Len(http') > Len(http)
               /\ DOMAIN http'[Len(http')] = {"fen", "depth"}
               /\ http'[Len(http')].fen = last'.fen
               /\ http'[Len(http')].depth = 20]_vars

\* C12 witness: analyze() has sent a position on the open channel
C12_Witness ==
    /\ last.op = "analyze"
    /\ last.fen = "fenB"
    /\ ChannelOpen
    /\ chanOut # <<>>
    /\ DOMAIN chanOut[Len(chanOut)].value = {"fen"}

\* C13: every step that changes the position of the host, and every handler
\* that sets a game (a legal move, a navigation, a reset, an undo, a load),
\* hands the new position to analyze() in the same step: the request goes
\* out on the open channel or as a fallback request, whatever is already in
\* flight and also when the position is the one requested before.
C13_PositionChangePushed ==
    [][(\/ game'.board # game.board
        \/ last'.op \in {"goToMove", "resetGame", "undo"}
        \/ (last'.op \in {"loadGame", "makeMove"} /\ last'.ok))
          => /\ isAnalyzing'
             /\ IF ChannelOpen
                THEN /\ chanOut' = Append(chanOut,
                                    Stringify([fen |-> Fen(game'.board)]))
                     /\ http' = http
                ELSE /\ http' = Append(http, [fen |-> Fen(game'.board),
                                              depth |-> 20])
                     /\ chanOut' = chanOut]_vars

\* C13 witness: a navigation requested the position that an unanswered
\* request had asked for already
C13_Witness ==
    /\ last.op = "goToMove"
    /\ Len(http) = 2
    /\ http[1].fen = http[2].fen
    /\ http[2].fen = Fen(game.board)

\* a step that delivered a result to the host: a frame that parsed, or a 2xx
\* answer with a JSON body to a fallback request or to the host's own one
Delivered(step) ==
    \/ step.op = "onmessage" /\ step.data.kind = "json"
    \/ /\ step.op \in {"fallback", "direct"}
       /\ step.resolved
       /\ step.ok
       /\ step.data.kind = "json"

\* C14: the stored analysis is exactly the result delivered last: a step
\* that delivers a result stores that result whole, whatever position it
\* was computed for and whatever the current position is, and no other
\* step changes the stored analysis.
C14_LastResultWins ==
    [][IF Delivered(last')
       THEN analysis' = last'.data.value
       ELSE analysis' = analysis]_vars

\* C14 witness: the result of the initial position was stored after the
\* host had moved on to another position
C14_Witness ==
    /\ last.op = "fallback"
    /\ last.fen = "fenA"
    /\ Fen(game.board) = "fenC"
    /\ analysis.best_move = <<"e", "2", "e", "4">>
    /\ calls # <<>>

\* C15: disconnect() leaves the fallback requests in flight, and a 2xx JSON
\* answer that arrives after disconnect() still invokes the callback with
\* its result.
C15_DisconnectKeepsFallback ==
    /\ [][last'.op = "disconnect" => http' = http]_vars
    /\ [][(/\ disc' # "no"
           /\ last'.op = "fallback"
           /\ last'.resolved
           /\ last'.ok
           /\ last'.data.kind = "json")
             => /\ calls' = <<last'.data.value>>
                /\ analysis' = last'.data.value]_vars

\* C15 witness: after disconnect() of the open channel, with the channel
\* gone, the answer to a fallback request reached the callback
C15_Witness ==
    /\ disc = "open"
    /\ ~ChannelOpen
    /\ last.op = "fallback"
    /\ calls # <<>>
    /\ analysis = calls[1]

\* a step in which the host issued an analysis request
Requested ==
    \/ Len(chanOut') > Len(chanOut)
    \/ Len(http') > Len(http)
    \/ Len(direct') > Len(direct)

\* C16 as stated: a step that issues a request sets the indicator, and the
\* indicator is cleared only in a step that invokes the callback.
C16_ClearedOnlyByCallback ==
    [][/\ Requested => isAnalyzing'
       /\ (isAnalyzing /\ ~isAnalyzing') => calls' # <<>>]_vars

\* C16 as amended: a step that issues a request sets the indicator; the
\* indicator is cleared only in a step that invokes the callback or in
\* which the host's own request (made before it has the manager) ends, with
\* a result or an error; a dropped malformed frame and a failed fallback
\* request leave the indicator as it is.
C16_ClearedByCallbackOrDirect ==
    [][/\ Requested => isAnalyzing'
       /\ (isAnalyzing /\ ~isAnalyzing')
             => (calls' # <<>> \/ last'.op = "direct")
       /\ (\/ last'.op = "onmessage" /\ last'.data = Garbage
           \/ last'.op = "fallback" /\ last'.error # "none")
             => isAnalyzing' = isAnalyzing]_vars

\* C16 witness: the indicator is active and nothing is in flight, after a
\* fallback request failed
C16_Witness ==
    /\ isAnalyzing
    /\ InFlight = 0
    /\ last.op = "fallback"
    /\ last.error = "Analysis failed"

\* C28: the close event of a socket that connect() replaced neither
\* increments reconnectAttempts nor schedules a reconnection, and an open
\* channel stays open until the network closes it or the host calls
\* disconnect() or connect().
C28_ReplacementIsQuiet ==
    [][/\ (last'.op = "onclose" /\ last'.closedBy = "connect")
            => (reconnectAttempts' = reconnectAttempts /\ timers' = timers)
       /\ (ChannelOpen /\ ~ChannelOpen')
            => \/ last'.op \in {"disconnect", "connect"}
               \/ /\ last'.op \in {"onclose", "onerror"}
                  /\ last'.current
                  /\ last'.closedBy = "none"]_vars

\* C29: reconnectAttempts is always between 0 and maxReconnectAttempts; it
\* changes only by an increment of one from a value below the limit, in a
\* close event, or by the reset to 0 of onopen.
C29_AttemptsInRange ==
    /\ [](reconnectAttempts \in 0 .. maxReconnectAttempts)
    /\ [][reconnectAttempts' # reconnectAttempts
            => \/ /\ last'.op = "onclose"
                  /\ reconnectAttempts < maxReconnectAttempts
                  /\ reconnectAttempts' = reconnectAttempts + 1
               \/ /\ last'.op = "onopen"
                  /\ reconnectAttempts' = 0]_vars

\* C29 witness: a socket closed while the counter was at the limit, and the
\* counter is still at the limit
C29_Witness ==
    /\ last.op = "onclose"
    /\ run > maxReconnectAttempts
    /\ reconnectAttempts = maxReconnectAttempts

(***************************************************************************)
(* Properties of the navigation.                                           *)
(***************************************************************************)
\* the last step called goToMove(last.index): a button with a fixed
\* argument, or goToNextMove / goToPreviousMove away from their boundary
GoToCalled ==
    \/ last.op = "goToMove"
    \/ last.op = "goToNextMove" /\ last.index < Len(moves)
    \/ last.op = "goToPreviousMove" /\ last.index >= 0

\* the position after the moves 0..cursor of the loaded game
Prefix(cursor) ==
    SubSeq(moves, 1, IF cursor + 1 < Len(moves) THEN cursor + 1 ELSE Len(moves))

\* C17: after goToMove(i) with -1 <= i < length of the move list, the cursor
\* is i and the position is the one reached by the moves 0..i, in order,
\* from the initial position; for i = -1 it is the initial position.
C17_GoToIndexReplays ==
    (GoToCalled /\ -1 <= last.index /\ last.index < Len(moves))
        => /\ currentMoveIndex = last.index
           /\ game.board = SubSeq(moves, 1, last.index + 1)
           /\ last.index = -1 => game = NewChess

\* C17 witness: in the game 1. e4 e5 2. Nf3, goToMove(1) was called and
\* shows the position after 1. e4 e5
C17_Witness ==
    /\ GoToCalled
    /\ moves = <<"e4", "e5", "Nf3">>
    /\ last.index = 1
    /\ currentMoveIndex = 1
    /\ game.board = <<"e4", "e5">>

\* C18: while a game is loaded for review, the position on the board is
\* the one reached by the moves 0..cursor of the move list.
C18_PositionMatchesCursor ==
    isReviewMode => game.board = Prefix(currentMoveIndex)

\* C19: while a game is loaded, -1 <= cursor < length of the move list.
C19_CursorInBounds ==
    isReviewMode =>
        (-1 <= currentMoveIndex /\ currentMoveIndex < Len(moves))

\* C20: after a successful load the cursor is -1, the position is the
\* initial one, the move list is the parsed one and the move-history log
\* holds nothing of what was played before.
C20_LoadResets ==
    (last.op = "loadGame" /\ last.ok)
        => /\ currentMoveIndex = -1
           /\ game.board = <<>>
           /\ moves = PgnMoves(last.pgn)
           /\ moveHistory \in {<<>>, moves}

\* C21: loadGame on text that is not a game sets the error message and
\* leaves the position, the move list, the cursor, the move-history log and
\* the review-mode flag as they were.
C21_MalformedLoadKeepsState ==
    [][(last'.op = "loadGame" /\ ~last'.ok)
          => /\ errorMessage' = "Invalid PGN format. Please check your input"
             /\ game' = game
             /\ moves' = moves
             /\ currentMoveIndex' = currentMoveIndex
             /\ moveHistory' = moveHistory
             /\ isReviewMode' = isReviewMode]_vars

\* C21 witness: text that is not a game was loaded over the game 1. e4 e5
\* 2. Nf3 shown at its second move
C21_Witness ==
    /\ last.op = "loadGame"
    /\ ~last.ok
    /\ last.pgn = "1. e4 e9"
    /\ errorMessage = "Invalid PGN format. Please check your input"
    /\ isReviewMode
    /\ moves = <<"e4", "e5", "Nf3">>
    /\ currentMoveIndex = 1
    /\ game.board = <<"e4", "e5">>

\* C22: goToNextMove calls goToMove(cursor + 1) unless the cursor is at the
\* last move, and goToPreviousMove calls goToMove(cursor - 1) unless the
\* cursor is -1; at these boundaries, and only there, they change nothing.
C22_StepsStopAtBoundaries ==
    [][/\ last'.op = "goToNextMove"
            => IF currentMoveIndex = Len(moves) - 1
               THEN currentMoveIndex' = currentMoveIndex /\ game' = game
               ELSE /\ currentMoveIndex' = currentMoveIndex + 1
                    /\ game'.board = Prefix(currentMoveIndex + 1)
       /\ last'.op = "goToPreviousMove"
            => IF currentMoveIndex = -1
               THEN currentMoveIndex' = currentMoveIndex /\ game' = game
               ELSE /\ currentMoveIndex' = currentMoveIndex - 1
                    /\ game'.board = Prefix(currentMoveIndex - 1)]_vars

\* the board after makeMove(move) on a board: the move is tried on a copy
\* made from the position string, and a rejected move leaves the board
ApplyMove(board, move) ==
    IF Legal(board, move) THEN Move(ChessOf(board), move).board ELSE board

\* the board after makeMove on each move of ms in turn
RECURSIVE ApplyAll(_, _)
ApplyAll(board, ms) ==
    IF ms = <<>> THEN board
    ELSE ApplyAll(ApplyMove(board, Head(ms)), Tail(ms))

\* C23: after a game is loaded, goToMove(length - 1) shows the position that
\* playing every move of the list, one makeMove at a time from the initial
\* position, ends in.
C23_ReplayEqualsIncremental ==
    (last.op = "goToMove" /\ last.index = Len(moves) - 1)
        => Fen(game.board) = Fen(ApplyAll(NewChess.board, moves))

\* C23 witness: goToMove(2) in the game 1. e4 e5 2. Nf3 shows the position
\* after its three moves
C23_Witness ==
    /\ last.op = "goToMove"
    /\ last.index = Len(moves) - 1
    /\ moves = <<"e4", "e5", "Nf3">>
    /\ Fen(game.board) = "fenD"

\* C24: goToMove(i) called again right after goToMove(i), with -1 <= i <
\* length of the move list, leaves the position and the cursor as the first
\* call set them.
C24_GoToIndexIdempotent ==
    [][(/\ last'.op = "goToMove"
        /\ last'.repeat
        /\ -1 <= last'.index
        /\ last'.index < Len(moves))
          => /\ Fen(game'.board) = Fen(game.board)
             /\ currentMoveIndex' = currentMoveIndex]_vars

\* C24 witness: goToMove(2) was called twice in a row in the game 1. e4 e5
\* 2. Nf3 and its last position is shown
C24_Witness ==
    /\ last.op = "goToMove"
    /\ last.repeat
    /\ last.index = 2
    /\ moves = <<"e4", "e5", "Nf3">>
    /\ currentMoveIndex = 2
    /\ Fen(game.board) = "fenD"

(***************************************************************************)
(* Properties of direct play.                                              *)
(***************************************************************************)
\* C25: makeMove with a move the rules engine rejects returns false and
\* changes nothing: the position, the move-history log, the move list, the
\* cursor and the best-move indicator stay as they were.
C25_IllegalMoveRejected ==
    [][(last'.op = "makeMove" /\ ~Legal(game.board, last'.move))
          => /\ ~last'.ok
             /\ game' = game
             /\ moveHistory' = moveHistory
             /\ moves' = moves
             /\ currentMoveIndex' = currentMoveIndex
             /\ showBestMove' = showBestMove]_vars

\* C25 witness: after 1. e4 was played and the best move is shown, e4 was
\* tried again and rejected
C25_Witness ==
    /\ last.op = "makeMove"
    /\ last.move = "e4"
    /\ ~last.ok
    /\ game.board = <<"e4">>
    /\ moveHistory = <<"e4">>
    /\ showBestMove

\* C26: makeMove with a legal move shows the position after the move,
\* appends the move's notation, and nothing else, to the end of the
\* move-history log, hides the best move and its indicator, and leaves the
\* move list and the cursor alone.
C26_LegalMoveApplied ==
    [][(last'.op = "makeMove" /\ Legal(game.board, last'.move))
          => /\ last'.ok
             /\ game'.board = Append(game.board, last'.move)
             /\ moveHistory' = Append(moveHistory, last'.move)
             /\ ~showBestMove'
             /\ arrows' = <<>>
             /\ moves' = moves
             /\ currentMoveIndex' = currentMoveIndex]_vars

\* C26 witness: 1. e4 e5 was played while an analysis is displayed; the log
\* holds both moves and no indicator is drawn
C26_Witness ==
    /\ last.op = "makeMove"
    /\ last.ok
    /\ last.move = "e5"
    /\ game.board = <<"e4", "e5">>
    /\ moveHistory = <<"e4", "e5">>
    /\ analysis # NullAnalysis
    /\ ~showBestMove
    /\ arrows = <<>>

\* a board without its last move
Front(board) == SubSeq(board, 1, Len(board) - 1)

\* C30: the Undo button takes back the move just played with makeMove and no
\* more than that one move: a second Undo in a row changes no position; the
\* move-history log, the move list, the cursor and the best-move toggle stay
\* as they were.
C30_UndoRevertsOneMove ==
    [][last'.op = "undo"
         => /\ game'.board \in {game.board, Front(game.board)}
            /\ (last.op = "makeMove" /\ last.ok)
                  => game'.board = Front(game.board)
            /\ last.op = "undo" => game'.board = game.board
            /\ moveHistory' = moveHistory
            /\ moves' = moves
            /\ currentMoveIndex' = currentMoveIndex
            /\ showBestMove' = showBestMove]_vars

\* C30 witness: 1. e4 e5 was played and e5 was taken back; the log still
\* holds both moves
C30_Witness ==
    /\ last.op = "undo"
    /\ game.board = <<"e4">>
    /\ moveHistory = <<"e4", "e5">>

(***************************************************************************)
(* Properties of the best-move indicator.                                  *)
(***************************************************************************)
\* C27: while the best move is shown, a best_move string of at least 4
\* characters gives exactly one indicator, from its characters 1-2 to its
\* characters 3-4; e1g1, e1c1, e8g8 and e8c8 give the king's squares, the
\* same pair; an absent or shorter best_move gives no indicator.
C27_BestMoveMapping ==
    LET m == analysis.best_move
        Pair(a) == <<a[1][1], a[1][2]>>
    IN  showBestMove =>
          /\ (m # NoMove /\ Len(m) >= 4)
                => /\ Len(arrows) = 1
                   /\ Pair(arrows) = <<SubSeq(m, 1, 2), SubSeq(m, 3, 4)>>
          /\ (m = NoMove \/ Len(m) < 4) => arrows = <<>>
          /\ m = <<"e", "1", "g", "1">>
                => Pair(arrows) = << <<"e", "1">>, <<"g", "1">> >>
          /\ m = <<"e", "1", "c", "1">>
                => Pair(arrows) = << <<"e", "1">>, <<"c", "1">> >>
          /\ m = <<"e", "8", "g", "8">>
                => Pair(arrows) = << <<"e", "8">>, <<"g", "8">> >>
          /\ m = <<"e", "8", "c", "8">>
                => Pair(arrows) = << <<"e", "8">>, <<"c", "8">> >>

\* C27 witness: the best move e1g1 is shown as the indicator from e1 to g1
C27_Witness ==
    /\ last.op = "toggle"
    /\ showBestMove
    /\ analysis.best_move = <<"e", "1", "g", "1">>
    /\ arrows = << << <<"e", "1">>, <<"g", "1">>, ArrowColor >> >>

=============================================================================
